---- MODULE Spec2Model ----
(***************************************************************************)
(* Strava -> Notion triathlon sync: the orchestrator (src/src/sync.py),    *)
(* the Notion client's duplicate guard, planned-workout matcher and linker *)
(* (src/src/notion.py) and the Strava client's category filter             *)
(* (src/src/strava.py).                                                    *)
(*                                                                         *)
(* Three specifications share the variables:                               *)
(*   MatcherSpec  find_planned_activity applied to every bounded planned   *)
(*                store, sport, date;                                      *)
(*   Spec         main()/sync_activities run after run;                    *)
(*   LinkSpec     the match-and-link tail of the loop body                 *)
(*                (sync.py 105-118) for a page that exists in the store.   *)
(***************************************************************************)
EXTENDS Integers, Sequences, FiniteSets, TLC

(* ---------------------------------------------------------------------- *)
(* Bounds                                                                  *)
(* ---------------------------------------------------------------------- *)
MaxPlanned == 3          \* planned pages in the planning database (MatcherSpec)
MaxActivityId == 2       \* source activity identifiers are 1 .. MaxActivityId
MaxBatch == 2            \* activities fetched by one run
MaxLinkPlanned == 2      \* planned pages in the planning database (LinkSpec)
MaxCreated == 2          \* activity pages created over the runs (LinkSpec)

(* ---------------------------------------------------------------------- *)
(* Program constants                                                       *)
(* ---------------------------------------------------------------------- *)
DefaultMaxDaysDiff == 3  \* find_planned_activity(..., max_days_diff: int = 3)

\* float('inf'): larger than every day difference of the model
Inf == 1000000

\* Calendar days of the model: the default window and one day beyond it.
Days == 0 .. (DefaultMaxDaysDiff + 1)

(* ---------------------------------------------------------------------- *)
(* Strings that carry dates.  A string is modelled by what the code can    *)
(* tell about it: "date" is YYYY-MM-DD, "datetime" is YYYY-MM-DDTHH:MM:SS, *)
(* "empty" is "", "garbage" is any text fromisoformat rejects.             *)
(* ---------------------------------------------------------------------- *)
DateStr(d)     == [text |-> "date", day |-> d]
DateTimeStr(d) == [text |-> "datetime", day |-> d]
EmptyStr       == [text |-> "empty", day |-> 0]
GarbageStr     == [text |-> "garbage", day |-> 0]

\* s.split("T")[0]
SplitT(s) == IF s.text = "datetime" THEN DateStr(s.day) ELSE s

\* datetime.fromisoformat(s) raises ValueError unless s is an ISO date
ParsesAsDate(s) == s.text \in {"date", "datetime"}

\* (activity_date - timedelta(days=n)).isoformat() : midnight of that day
IsoformatOfDay(d) == DateTimeStr(d)

(* ---------------------------------------------------------------------- *)
(* Planned pages.  date is the value of properties.Date.date:              *)
(*   [null |-> TRUE]  the property holds None                              *)
(*   otherwise start is properties.Date.date.start ("" when absent).       *)
(* select is properties."Selection status".select, "" standing for None.   *)
(* relation is properties."Training Log Entries".relation (page ids).      *)
(* ---------------------------------------------------------------------- *)
NullDate      == [null |-> TRUE, start |-> EmptyStr]
DateOf(s)     == [null |-> FALSE, start |-> s]

Abs(x) == IF x < 0 THEN -x ELSE x

RECURSIVE SetToSeq(_)
\* the page ids of S in store ordering (ascending position)
SetToSeq(S) ==
  IF S = {} THEN <<>>
  ELSE LET m == CHOOSE x \in S : \A y \in S : x <= y
       IN  <<m>> \o SetToSeq(S \ {m})

(* ---------------------------------------------------------------------- *)
(* State                                                                   *)
(* ---------------------------------------------------------------------- *)
VARIABLES
  planned_db,     \* the planning database: sequence of planned pages, id = position
  range_lenient,  \* whether the store's date-range filter lets through pages it cannot compare
  m_call,         \* arguments of the find_planned_activity call under check
  m_result,       \* what that call returned or raised
  activities_db,  \* the activities database: sequence of activity pages, id = position
  link_writes,    \* the relation writes the store applied: <<planned id, activity page id>>
  sports_db,      \* the Sports database: <<sport name, page id>>, one page a name at most
  config,         \* config.yml / environment: what the mapping table enables
  sport_page_cache,     \* NotionClient._sport_page_cache: <<sport name, page id>> entries
  triathlon_activities, \* the filtered batch of the current run
  dry_run,        \* sync_activities(dry_run=...)
  idx,            \* position of the for loop in triathlon_activities
  stats,          \* the counters of the current run
  pc,             \* "idle" before the first run, "loop" inside one, "done" after it returned
  prev_run,       \* how the same batch was run just before: "none" or "real"
  net_failed,     \* a store call failed on the wire since the batch was first run
  create_calls,   \* create_page calls of the current run
  query_calls,    \* query requests sent to the store in the current run
  update_calls,   \* update_page requests sent to the store in the current run
  failed_call,    \* the call that raised for the activity processed last, "" for none
  translated,     \* what activity_to_properties returned for that activity, if called
  exit_code       \* exit status of the process, -1 while it has not ended

matchVars == <<m_call, m_result>>
storeVars == <<planned_db, range_lenient>>
runVars   == <<triathlon_activities, dry_run, idx, stats, pc, prev_run, net_failed,
               create_calls, sport_page_cache, query_calls, update_calls,
               failed_call, translated, exit_code>>
envVars   == <<sports_db, config>>
vars == <<planned_db, range_lenient, m_call, m_result, activities_db, link_writes,
          sports_db, config, sport_page_cache, triathlon_activities, dry_run, idx,
          stats, pc, prev_run, net_failed, create_calls, query_calls, update_calls,
          failed_call, translated, exit_code>>

(* ---------------------------------------------------------------------- *)
(* The record store's side of query_database on the planning database.     *)
(* The store compares calendar days; a page whose date it cannot compare   *)
(* never equals a date, and passes a range filter or not as the store      *)
(* decides (range_lenient).                                                *)
(* ---------------------------------------------------------------------- *)
Comparable(date) == ~date.null /\ ParsesAsDate(date.start)

\* {"property": "Date", "date": {"equals": date_only}}
DateEquals(date, date_only) == Comparable(date) /\ date.start.day = date_only.day

\* faulty variant: the filter built with "after" and "before"
DateInRange_exclusive(date, start_date, end_date, lenient) ==
  IF Comparable(date)
  THEN start_date.day < date.start.day /\ date.start.day < end_date.day
  ELSE lenient

\* {"on_or_after": start_date} and {"on_or_before": end_date}
DateInRange(date, start_date, end_date, lenient) ==
  IF Comparable(date)
  THEN start_date.day <= date.start.day /\ date.start.day <= end_date.day
  ELSE lenient

\* step 1 query: sport equals and date equals, results in store ordering
ExactQuery(db, sport_type, date_only) ==
  SetToSeq({i \in DOMAIN db :
              db[i].sport = sport_type /\ DateEquals(db[i].date, date_only)})

\* step 2 query: sport equals and date within [start_date, end_date]
WindowQuery(db, sport_type, start_date, end_date, lenient) ==
  SetToSeq({i \in DOMAIN db :
              /\ db[i].sport = sport_type
              /\ DateInRange(db[i].date, start_date, end_date, lenient)})

(* ---------------------------------------------------------------------- *)
(* NotionClient._filter_available_planned_workouts                         *)
(* ---------------------------------------------------------------------- *)
\* faulty variant: the status compared with "done"
IsDone_lowercase(page) == page.select # "" /\ page.select = "done"

IsDone(page) == page.select # "" /\ page.select = "Done"

\* faulty variant: the relation check left out
IsAvailable_status_only(page) == ~IsDone(page)

IsAvailable(page) == ~IsDone(page) /\ page.relation = <<>>

\* faulty variant: nothing filtered out
filter_available_unfiltered(db, workouts) == workouts

filter_available_planned_workouts(db, workouts) ==
  SelectSeq(workouts, LAMBDA i : IsAvailable(db[i]))

(* ---------------------------------------------------------------------- *)
(* get_date_diff, the key of min() in find_planned_activity                *)
(* ---------------------------------------------------------------------- *)
\* "" when it returns, else the exception it raises
get_date_diff_raises(page) ==
  IF page.date.null THEN "AttributeError"              \* None.get("start", "")
  ELSE IF page.date.start.text = "empty" THEN ""       \* return float('inf')
  ELSE IF ~ParsesAsDate(SplitT(page.date.start)) THEN "ValueError"
  ELSE ""

\* faulty variant: abs() left out
get_date_diff_signed(page, activity_day) ==
  IF page.date.start.text = "empty" THEN Inf
  ELSE SplitT(page.date.start).day - activity_day

get_date_diff(page, activity_day) ==
  IF page.date.start.text = "empty" THEN Inf
  ELSE Abs(SplitT(page.date.start).day - activity_day)

\* min(available_results, key=get_date_diff): the first element with the least key
closest_match(db, available, activity_day) ==
  LET k(j) == get_date_diff(db[available[j]], activity_day)
      best == CHOOSE j \in DOMAIN available :
                /\ \A l \in DOMAIN available : k(j) <= k(l)
                /\ \A l \in DOMAIN available : l < j => k(l) > k(j)
  IN  available[best]

(* ---------------------------------------------------------------------- *)
(* NotionClient.find_planned_activity.  failing names the query_database   *)
(* call that raises (0: none, 1: the exact-date query, 2: the window       *)
(* query).  The result records the page id, the number of queries issued   *)
(* and the exception, if any.                                              *)
(* ---------------------------------------------------------------------- *)
Returned(id, q) == [kind |-> "page", id |-> id, queries |-> q, exc |-> ""]
ReturnedNone(q) == [kind |-> "none", id |-> 0, queries |-> q, exc |-> ""]
Raised(e, q)    == [kind |-> "raise", id |-> 0, queries |-> q, exc |-> e]

\* faulty variant: the two passes merged into the window pass
find_planned_activity_one_pass(db, sport_type, date, max_days_diff, lenient, failing) ==
  LET date_only == SplitT(date)
  IN
  IF ~ParsesAsDate(date_only) THEN Raised("ValueError", 0)
  ELSE
  LET activity_day == date_only.day
      available == filter_available_planned_workouts(db,
                  WindowQuery(db, sport_type,
                              IsoformatOfDay(activity_day - max_days_diff),
                              IsoformatOfDay(activity_day + max_days_diff), lenient))
      bad == {j \in DOMAIN available : get_date_diff_raises(db[available[j]]) # ""}
      firstBad == CHOOSE j \in bad : \A l \in bad : j <= l
  IN
  IF failing \in {1, 2} THEN Raised("HTTPError", 2)
  ELSE IF available = <<>> THEN ReturnedNone(2)
  ELSE IF bad # {} THEN Raised(get_date_diff_raises(db[available[firstBad]]), 2)
  ELSE Returned(closest_match(db, available, activity_day), 2)

find_planned_activity(db, sport_type, date, max_days_diff, lenient, failing) ==
  LET date_only == SplitT(date)
  IN
  IF ~ParsesAsDate(date_only) THEN Raised("ValueError", 0)
  ELSE
  LET activity_day == date_only.day
      exact == filter_available_planned_workouts(db,
                  ExactQuery(db, sport_type, date_only))
      start_date == IsoformatOfDay(activity_day - max_days_diff)
      end_date   == IsoformatOfDay(activity_day + max_days_diff)
      available == filter_available_planned_workouts(db,
                  WindowQuery(db, sport_type, start_date, end_date, lenient))
      bad == {j \in DOMAIN available : get_date_diff_raises(db[available[j]]) # ""}
      firstBad == CHOOSE j \in bad : \A l \in bad : j <= l
  IN
  IF failing = 1 THEN Raised("HTTPError", 1)
  ELSE IF exact # <<>> THEN Returned(exact[1], 1)
  ELSE IF failing = 2 THEN Raised("HTTPError", 2)
  ELSE IF available = <<>> THEN ReturnedNone(2)
  ELSE IF bad # {} THEN Raised(get_date_diff_raises(db[available[firstBad]]), 2)
  ELSE Returned(closest_match(db, available, activity_day), 2)

(* ---------------------------------------------------------------------- *)
(* MatcherSpec: find_planned_activity on every bounded planning database.  *)
(* The pages are drawn from PlannedPages: open "Run" workouts on every day *)
(* and consumed ones (marked Done, or already linked) on the first days;   *)
(* open "Run" workouts whose date is a datetime, None, without start, or   *)
(* unparseable; a "Bike" workout.                                          *)
(* ---------------------------------------------------------------------- *)
PlannedPage(sport, date, select, relation) ==
  [sport |-> sport, date |-> date, select |-> select, relation |-> relation]

ConsumedDays == {0, 1, 2}

PlannedPages ==
  {PlannedPage("Run", DateOf(DateStr(d)), "", <<>>) : d \in Days}
    \cup {PlannedPage("Run", DateOf(DateStr(d)), "Done", <<>>) : d \in ConsumedDays}
    \cup {PlannedPage("Run", DateOf(DateStr(d)), "Planned", <<1>>) : d \in ConsumedDays}
    \cup {PlannedPage("Run", DateOf(DateTimeStr(1)), "Planned", <<>>),
          PlannedPage("Run", NullDate, "", <<>>),
          PlannedPage("Run", DateOf(EmptyStr), "", <<>>),
          PlannedPage("Run", DateOf(GarbageStr), "", <<>>),
          PlannedPage("Bike", DateOf(DateStr(1)), "", <<>>)}

CallSports    == {"Run", "Bike"}
ActivityDates == {DateTimeStr(d) : d \in Days} \cup {DateStr(1), EmptyStr}
Tolerances    == {DefaultMaxDaysDiff - 1, DefaultMaxDaysDiff}

\* the calls made: every date and tolerance for "Run", one call for "Bike"
MatcherCalls ==
  {<<"Run", date, max_days_diff>> : date \in ActivityDates, max_days_diff \in Tolerances}
    \cup {<<sport_type, DateTimeStr(1), DefaultMaxDaysDiff>> : sport_type \in CallSports}

Idle == [kind |-> "idle", id |-> 0, queries |-> 0, exc |-> ""]
NoCall == [sport |-> "", date |-> EmptyStr, max_days_diff |-> 0, failing |-> 0]

\* the sport names of config.yml's tables
CadenceSports == {"Run", "Bike", "Swim"}

\* activity_to_properties was not called, or raised
NotTranslated ==
  [is_tuple |-> FALSE, strava_id |-> 0, sport |-> "", start_date |-> EmptyStr,
   emoji_icon |-> <<>>, sport_props |-> {}, sport_page |-> 0]

ZeroStats == [created |-> 0, updated |-> 0, skipped |-> 0, errors |-> 0]

\* the orchestrator at rest, before any run
RunAtRest ==
  /\ triathlon_activities = <<>>
  /\ dry_run = FALSE
  /\ idx = 1
  /\ stats = ZeroStats
  /\ pc = "idle"
  /\ prev_run = "none"
  /\ net_failed = FALSE
  /\ create_calls = 0
  /\ sport_page_cache = {}
  /\ query_calls = 0
  /\ update_calls = 0
  /\ failed_call = ""
  /\ translated = NotTranslated
  /\ exit_code = -1

MatcherInit ==
  /\ planned_db \in UNION {[1 .. n -> PlannedPages] : n \in 0 .. MaxPlanned}
  /\ range_lenient \in BOOLEAN
  \* the choice shows only on a page whose date the store cannot compare
  /\ range_lenient => \E p \in DOMAIN planned_db : ~Comparable(planned_db[p].date)
  /\ m_call = NoCall
  /\ m_result = Idle
  /\ activities_db = <<>>
  /\ link_writes = {}
  /\ sports_db = {}
  /\ config = [id_mapped |-> TRUE, sport_relation |-> FALSE, missing |-> "",
                cadence_fields |-> CadenceSports]
  /\ RunAtRest

\* one call of find_planned_activity(sport_type, date, max_days_diff)
CallFindPlanned ==
  /\ m_result = Idle
  /\ \E call \in MatcherCalls :
       /\ m_call' = [sport |-> call[1], date |-> call[2],
                     max_days_diff |-> call[3], failing |-> 0]
       /\ m_result' = find_planned_activity(planned_db, call[1], call[2],
                         call[3], range_lenient, 0)
  /\ UNCHANGED <<storeVars, activities_db, link_writes, envVars, runVars>>

MatcherNext == CallFindPlanned

MatcherSpec == MatcherInit /\ [][MatcherNext]_vars

(* ---------------------------------------------------------------------- *)
(* Vocabulary of the matcher claims, stated on the store's content and the *)
(* call's arguments, not on the matcher's own helpers.                     *)
(* ---------------------------------------------------------------------- *)
Called        == m_result # Idle
CallDayKnown  == m_call.date.text \in {"date", "datetime"}
CallDay       == m_call.date.day
HasDay(p)     == ~p.date.null /\ p.date.start.text \in {"date", "datetime"}
DayOf(p)      == p.date.start.day
Dist(p)       == IF DayOf(p) >= CallDay THEN DayOf(p) - CallDay ELSE CallDay - DayOf(p)
Consumed(p)   == p.select = "Done" \/ Len(p.relation) > 0
\* open workouts of the call's sport
OpenIds       == {i \in DOMAIN planned_db :
                    planned_db[i].sport = m_call.sport /\ ~Consumed(planned_db[i])}
OpenOnDay     == {i \in OpenIds : HasDay(planned_db[i]) /\ DayOf(planned_db[i]) = CallDay}
\* open workouts the window query can hand to the matcher
OpenInWindow  == {i \in OpenIds :
                    IF HasDay(planned_db[i])
                    THEN Dist(planned_db[i]) <= m_call.max_days_diff
                    ELSE range_lenient}
NoStart(p)    == ~p.date.null /\ p.date.start.text = "empty"
\* the matcher's distance: a workout without start is infinitely distant
FarDist(p)    == IF NoStart(p) THEN Inf ELSE Dist(p)

\* C4: find_planned_activity never returns a consumed planned workout: the
\* returned page, from either pass, is not "Done" and has an empty
\* Training Log Entries relation.
C4_NeverReturnsConsumed ==
  m_result.kind = "page" =>
    /\ planned_db[m_result.id].select # "Done"
    /\ planned_db[m_result.id].relation = <<>>

\* a page was returned although the store holds a Done and a linked workout of
\* the sport in the window, both ahead of it in store ordering
C4_Witness ==
  /\ m_result.kind = "page"
  /\ \E i, j \in DOMAIN planned_db :
       /\ i < m_result.id /\ j < m_result.id
       /\ planned_db[i].sport = m_call.sport /\ planned_db[i].select = "Done"
       /\ planned_db[j].sport = m_call.sport /\ Len(planned_db[j].relation) > 0
       /\ HasDay(planned_db[i]) /\ Dist(planned_db[i]) = 0
       /\ HasDay(planned_db[j]) /\ Dist(planned_db[j]) <= 1

\* C5: exact-date precedence: when an open workout of the sport is planned on
\* the activity's day, the first such workout in store ordering is returned
\* after the exact-date query alone; the window query is not issued.
C5_ExactDatePrecedence ==
  (Called /\ CallDayKnown /\ OpenOnDay # {}) =>
    /\ m_result.kind = "page"
    /\ m_result.id \in OpenOnDay
    /\ \A i \in OpenOnDay : m_result.id <= i
    /\ m_result.queries = 1

\* two open workouts on the activity's day and an open one elsewhere in the
\* window that precedes both in store ordering; the activity date carries a time
C5_Witness ==
  /\ Called /\ m_call.date.text = "datetime"
  /\ Cardinality(OpenOnDay) >= 2
  /\ \E w \in OpenInWindow \ OpenOnDay : \A i \in OpenOnDay : w < i
  /\ m_result.kind = "page"

\* C6: nearest-date selection: a page returned by the window pass is an open
\* window candidate with the least day difference to the activity date (a
\* workout without start counting as infinitely distant), and the first in
\* store ordering among those at that distance.
C6_NearestInWindow ==
  (m_result.kind = "page" /\ m_result.queries = 2) =>
    /\ OpenOnDay = {}
    /\ m_result.id \in OpenInWindow
    /\ \A j \in OpenInWindow :
         /\ FarDist(planned_db[m_result.id]) <= FarDist(planned_db[j])
         /\ FarDist(planned_db[j]) = FarDist(planned_db[m_result.id]) => m_result.id <= j

\* candidates at day differences 2, 1, 3 in that store ordering: the one at 1
C6_Witness ==
  /\ Len(planned_db) = 3
  /\ OpenInWindow = {1, 2, 3}
  /\ CallDayKnown
  /\ Dist(planned_db[1]) = 2 /\ Dist(planned_db[2]) = 1 /\ Dist(planned_db[3]) = 3
  /\ m_result.kind = "page" /\ m_result.id = 2

\* C7: fall-through on a consumed exact match: with tolerance 3, a Done workout
\* of the sport on the activity's day, no open one on that day, and the
\* nearest open window candidate 2 days away (the others dated further away
\* or without start): the matcher returns an open workout 2 days away (not
\* none, not the consumed one).
C7_FallThroughConsumedExact ==
  ( /\ Called /\ CallDayKnown /\ m_call.max_days_diff = 3
    /\ \E i \in DOMAIN planned_db :
         /\ planned_db[i].sport = m_call.sport /\ planned_db[i].select = "Done"
         /\ HasDay(planned_db[i]) /\ DayOf(planned_db[i]) = CallDay
    /\ OpenOnDay = {}
    /\ \A j \in OpenInWindow :
         NoStart(planned_db[j]) \/ (HasDay(planned_db[j]) /\ Dist(planned_db[j]) >= 2)
    /\ \E j \in OpenInWindow : HasDay(planned_db[j]) /\ Dist(planned_db[j]) = 2 ) =>
    /\ m_result.kind = "page"
    /\ ~Consumed(planned_db[m_result.id])
    /\ Dist(planned_db[m_result.id]) = 2

\* the Done workout on the day comes first in the store, the open one 2 days
\* away is returned
C7_Witness ==
  /\ Called /\ CallDayKnown /\ m_call.max_days_diff = 3
  /\ Len(planned_db) >= 2
  /\ planned_db[1].sport = m_call.sport /\ planned_db[1].select = "Done"
  /\ HasDay(planned_db[1]) /\ DayOf(planned_db[1]) = CallDay
  /\ OpenOnDay = {}
  /\ m_result.kind = "page" /\ m_result.id > 1
  /\ Dist(planned_db[m_result.id]) = 2

\* C8: inclusive tolerance window: an open workout dated exactly max_days_diff
\* days before or after the activity is returned when every other open
\* workout of the sport is dated further away; and no returned workout is
\* dated more than max_days_diff days away.
C8_InclusiveWindow ==
  /\ (Called /\ CallDayKnown) =>
       \A i \in OpenIds :
         ( /\ HasDay(planned_db[i]) /\ Dist(planned_db[i]) = m_call.max_days_diff
           /\ \A j \in OpenIds \ {i} :
                HasDay(planned_db[j]) /\ Dist(planned_db[j]) > m_call.max_days_diff )
         => (m_result.kind = "page" /\ m_result.id = i)
  /\ (m_result.kind = "page" /\ HasDay(planned_db[m_result.id])) =>
       Dist(planned_db[m_result.id]) <= m_call.max_days_diff

\* default tolerance 3: the workout 3 days before the activity is returned
\* while an open workout 4 days before it is in the store
C8_Witness ==
  /\ Called /\ CallDayKnown /\ m_call.max_days_diff = DefaultMaxDaysDiff
  /\ m_result.kind = "page"
  /\ DayOf(planned_db[m_result.id]) = CallDay - DefaultMaxDaysDiff
  /\ \E j \in OpenIds : HasDay(planned_db[j])
                          /\ DayOf(planned_db[j]) = CallDay - (DefaultMaxDaysDiff + 1)

\* C9: missing-date candidates in the window pass: a workout without a date
\* is not returned while an open dated candidate exists, and when every open
\* window candidate lacks a date the matcher returns none.
C9_MissingDateNeverSelected ==
  /\ (m_result.kind = "page" /\ m_result.queries = 2
        /\ NoStart(planned_db[m_result.id])) =>
       ~ \E j \in OpenInWindow : HasDay(planned_db[j])
  /\ ( /\ Called /\ CallDayKnown /\ OpenOnDay = {}
       /\ OpenInWindow # {}
       /\ \A j \in OpenInWindow : NoStart(planned_db[j]) ) =>
       m_result.kind = "none"

\* C10: data errors never crash the matcher: whatever the candidates' dates
\* (missing, None, unparseable), a call with a well-formed activity date
\* returns a page or none.
C10_DataErrorsNeverRaise ==
  (Called /\ CallDayKnown) => m_result.kind \in {"page", "none"}

(* ---------------------------------------------------------------------- *)
(* StravaClient                                                            *)
(* ---------------------------------------------------------------------- *)
TriathlonTypes == {"Swim", "Ride", "Run"}

\* an activity is a record [id, type, sport_type, start_date]; sport_type ""
\* stands for an absent or empty field
filter_triathlon_activities(activities) ==
  SelectSeq(activities,
            LAMBDA a : a.type \in TriathlonTypes \/ a.sport_type \in TriathlonTypes)

\* Ride -> Bike, others stay the same
get_notion_sport_type(strava_type) ==
  IF strava_type = "Ride" THEN "Bike" ELSE strava_type

\* activity.get("sport_type") or activity.get("type", "Unknown")
StravaTypeOf(activity) ==
  IF activity.sport_type # "" THEN activity.sport_type ELSE activity.type

(* ---------------------------------------------------------------------- *)
(* NotionClient: duplicate guard, translator, create_page, linker          *)
(* ---------------------------------------------------------------------- *)
\* faulty variant: the query result is taken for empty
find_activity_by_strava_id_misses(db, strava_id) == 0

\* the id of the first page whose "Strava ID" equals strava_id, 0 for None
find_activity_by_strava_id(db, strava_id) ==
  LET hits == {i \in DOMAIN db : db[i].strava_id = strava_id}
  IN  IF hits = {} THEN 0 ELSE CHOOSE i \in hits : \A j \in hits : i <= j

\* whether activity_to_properties asks find_sport_page_id for the sport
WantsSportPage(cfg) == cfg.sport_relation

\* the page id a set of <<sport name, page id>> holds for a name, 0 for none
SportPageOf(pages, sport_name) ==
  LET hits == {e \in pages : e[1] = sport_name}
  IN  IF hits = {} THEN 0
      ELSE (CHOOSE e \in hits : \A f \in hits : e[2] <= f[2])[2]

\* faulty variant: the Sports database queried at every call
find_sport_page_id_uncached(cache, sports, sport_name) ==
  LET sport_page_id == SportPageOf(sports, sport_name)
  IN  IF sport_page_id # 0
      THEN [id |-> sport_page_id,
            cache |-> {e \in cache : e[1] # sport_name} \cup {<<sport_name, sport_page_id>>},
            queried |-> TRUE]
      ELSE [id |-> 0, cache |-> cache, queried |-> TRUE]

\* find_sport_page_id of a client that has a Sports database id: the id
\* returned (0: None), the cache after the call, whether a query was sent
find_sport_page_id(cache, sports, sport_name) ==
  LET sport_page_id == SportPageOf(sports, sport_name)
  IN  IF SportPageOf(cache, sport_name) # 0
      THEN [id |-> SportPageOf(cache, sport_name), cache |-> cache, queried |-> FALSE]
      ELSE IF sport_page_id # 0
      THEN [id |-> sport_page_id, cache |-> cache \cup {<<sport_name, sport_page_id>>},
            queried |-> TRUE]
      ELSE [id |-> 0, cache |-> cache, queried |-> TRUE]

\* find_sport_page_id issues a query unless the name is cached
SportQueryIssued(cfg, cache, sport_name) ==
  WantsSportPage(cfg) /\ find_sport_page_id(cache, {}, sport_name).queried

\* the cache after activity_to_properties
find_sport_page_id_cache(cfg, cache, sports, sport_name) ==
  IF WantsSportPage(cfg) THEN find_sport_page_id(cache, sports, sport_name).cache
  ELSE cache

(* ---------------------------------------------------------------------- *)
(* ConfigLoader. cfg.cadence_fields are the sport names whose               *)
(* "<sport>_fields" table maps average_cadence; the Notion field name a     *)
(* table gives is written <<sport, key>>.                                   *)
(* ---------------------------------------------------------------------- *)
\* the keys of sport_icons
SportIcons == {"Run", "Bike", "Swim"}

\* the table "<sport_type>_fields" as a set of <<key, Notion field name>>
get_sport_fields(cfg, sport_type) ==
  IF sport_type \in cfg.cadence_fields
  THEN {<<"average_cadence", <<sport_type, "average_cadence">>>>}
  ELSE {}

\* icons.get(sport_type); <<>> stands for None
get_sport_icon(cfg, sport_type) ==
  IF sport_type \in SportIcons THEN <<"icon", sport_type>> ELSE <<>>

\* the glyph activity_to_properties falls back to
FallbackIcon == <<"icon", "fallback">>

(* ---------------------------------------------------------------------- *)
(* Translator. average_cadence is counted in quarters: the value n stands  *)
(* for the float n / CadenceUnit, which Python represents exactly.         *)
(* ---------------------------------------------------------------------- *)
CadenceUnit == 4

\* round(n / d, 0) for n >= 0: the nearest whole number, a tie to the even one
round0(n, d) ==
  LET q == n \div d
      r == n % d
  IN  IF 2 * r < d THEN q
      ELSE IF 2 * r > d THEN q + 1
      ELSE IF q % 2 = 0 THEN q ELSE q + 1

\* faulty variant: running cadence written as it comes
get_sport_specific_properties_no_doubling(activity, display_sport_type, strava_sport_type, cfg) ==
  LET sport_fields == get_sport_fields(cfg, display_sport_type)
      mapped == {f \in sport_fields : f[1] = "average_cadence"}
  IN  IF mapped = {} \/ activity.average_cadence = 0 THEN {}
      ELSE IF strava_sport_type \in {"Run", "Ride", "Swim"}
        THEN {[name |-> f[2], number |-> round0(activity.average_cadence, CadenceUnit)] :
                f \in mapped}
      ELSE {}

\* _get_sport_specific_properties: of the properties the model keeps the
\* cadence. The table is looked up by display_sport_type, the branch is taken
\* by strava_sport_type; a cadence that is absent or 0 writes nothing.
get_sport_specific_properties(activity, display_sport_type, strava_sport_type, cfg) ==
  LET sport_fields == get_sport_fields(cfg, display_sport_type)
      mapped == {f \in sport_fields : f[1] = "average_cadence"}
  IN  IF mapped = {} \/ activity.average_cadence = 0 THEN {}
      ELSE IF strava_sport_type = "Run"
        THEN {[name |-> f[2], number |-> round0(activity.average_cadence * 2, CadenceUnit)] :
                f \in mapped}
      ELSE IF strava_sport_type \in {"Ride", "Swim"}
        THEN {[name |-> f[2], number |-> round0(activity.average_cadence, CadenceUnit)] :
                f \in mapped}
      ELSE {}

\* faulty variant: the sport tables looked up by the Strava sport type
activity_to_properties_strava_fields(activity, notion_sport_type, cfg, cache, sports) ==
  LET strava_sport_type == StravaTypeOf(activity)
      display_sport_type ==
        IF notion_sport_type # "" THEN notion_sport_type ELSE strava_sport_type
      icon == get_sport_icon(cfg, display_sport_type)
  IN  [is_tuple   |-> TRUE,
       strava_id  |-> IF cfg.id_mapped /\ activity.id # 0 THEN activity.id ELSE 0,
       sport      |-> display_sport_type,
       start_date |-> activity.start_date,
       emoji_icon |-> IF icon # <<>> THEN icon ELSE FallbackIcon,
       sport_props |-> get_sport_specific_properties(activity, strava_sport_type,
                                                     strava_sport_type, cfg),
       sport_page |-> IF WantsSportPage(cfg)
                      THEN find_sport_page_id(cache, sports, display_sport_type).id
                      ELSE 0]

\* activity_to_properties returns the pair (properties, emoji_icon); of the
\* properties the model keeps the "Strava ID" number (0: not set), the sport
\* select, the start date, the sport-specific properties and the page id of
\* the Sport Type relation (0: not set); notion_sport_type "" stands for None
activity_to_properties(activity, notion_sport_type, cfg, cache, sports) ==
  LET strava_sport_type == StravaTypeOf(activity)
      display_sport_type ==
        IF notion_sport_type # "" THEN notion_sport_type ELSE strava_sport_type
      icon == get_sport_icon(cfg, display_sport_type)
  IN  [is_tuple   |-> TRUE,
       strava_id  |-> IF cfg.id_mapped /\ activity.id # 0 THEN activity.id ELSE 0,
       sport      |-> display_sport_type,
       start_date |-> activity.start_date,
       emoji_icon |-> IF icon # <<>> THEN icon ELSE FallbackIcon,
       sport_props |-> get_sport_specific_properties(activity, display_sport_type,
                                                     strava_sport_type, cfg),
       sport_page |-> IF WantsSportPage(cfg)
                      THEN find_sport_page_id(cache, sports, display_sport_type).id
                      ELSE 0]

\* properties[0], the dictionary of the pair
PropertiesDict(pair) == [pair EXCEPT !.is_tuple = FALSE]

\* faulty variant: create_page without the line that reads properties.keys()
create_page_accepts(properties) == ""

\* create_page(properties): list(properties.keys()) raises on a tuple, before
\* the request is sent; "" when the call goes through
create_page_raises(properties) ==
  IF properties.is_tuple THEN "AttributeError" ELSE ""

\* the page the store creates from the properties; src remembers the source
\* activity it was created for
CreatedPage(properties, activity) ==
  [strava_id |-> properties.strava_id, src |-> activity.id,
   sport |-> properties.sport, start_date |-> properties.start_date,
   linked_planned |-> <<>>]

\* update_page(planned_page_id, {"Training Log Entries": {"relation": [{"id": activity_page_id}]}})
link_activity_to_planned(db, activity_page_id, planned_page_id) ==
  [db EXCEPT ![planned_page_id].relation = <<activity_page_id>>]

\* update_page(activity_page_id, {"Linked Planned Workout": {"relation": [{"id": planned_page_id}]}});
\* defined by NotionClient, called nowhere in sync.py
link_planned_to_activity(db, planned_page_id, activity_page_id) ==
  [db EXCEPT ![activity_page_id].linked_planned = <<planned_page_id>>]

\* update_page(planned_page_id, {"Selection status": {"select": {"name": "Done"}}})
mark_planned_as_done(db, planned_page_id) ==
  [db EXCEPT ![planned_page_id].select = "Done"]

(* ---------------------------------------------------------------------- *)
(* sync_activities, lines 105-118: match the created page and link it.     *)
(* failing names the store call that raises: 0 none, 1 the exact-date      *)
(* query, 2 the window query, 3 the relation update, 4 the status update.  *)
(* The outcome is the planning database after the calls that went through, *)
(* whether an exception reached the except clause, the planned page whose  *)
(* relation was written (0: none), and what find_planned_activity gave.    *)
(* ---------------------------------------------------------------------- *)
TailFailures == 0 .. 4

\* faulty variant: no planned workout found raises
MatchAndLink_none_raises(db, created_page_id, notion_type, activity_date, lenient, failing) ==
  LET planned_activity ==
        find_planned_activity(db, notion_type, activity_date, DefaultMaxDaysDiff,
                              lenient, IF failing \in {1, 2} THEN failing ELSE 0)
      linked == link_activity_to_planned(db, created_page_id, planned_activity.id)
  IN
  IF planned_activity.kind \in {"raise", "none"}
    THEN [planned |-> db, raised |-> TRUE, linked |-> 0, done |-> FALSE,
          match |-> planned_activity, updates |-> 0]
  ELSE IF failing = 3
    THEN [planned |-> db, raised |-> TRUE, linked |-> 0, done |-> FALSE,
          match |-> planned_activity, updates |-> 1]
  ELSE IF failing = 4
    THEN [planned |-> linked, raised |-> TRUE, linked |-> planned_activity.id,
          done |-> FALSE, match |-> planned_activity, updates |-> 2]
  ELSE [planned |-> mark_planned_as_done(linked, planned_activity.id),
        raised |-> FALSE, linked |-> planned_activity.id, done |-> TRUE,
        match |-> planned_activity, updates |-> 2]

\* faulty variant: the status update sent before the relation update
MatchAndLink_done_first(db, created_page_id, notion_type, activity_date, lenient, failing) ==
  LET planned_activity ==
        find_planned_activity(db, notion_type, activity_date, DefaultMaxDaysDiff,
                              lenient, IF failing \in {1, 2} THEN failing ELSE 0)
      marked == mark_planned_as_done(db, planned_activity.id)
  IN
  IF planned_activity.kind = "raise"
    THEN [planned |-> db, raised |-> TRUE, linked |-> 0, done |-> FALSE,
          match |-> planned_activity, updates |-> 0]
  ELSE IF planned_activity.kind = "none"
    THEN [planned |-> db, raised |-> FALSE, linked |-> 0, done |-> FALSE,
          match |-> planned_activity, updates |-> 0]
  ELSE IF failing = 4
    THEN [planned |-> db, raised |-> TRUE, linked |-> 0, done |-> FALSE,
          match |-> planned_activity, updates |-> 1]
  ELSE IF failing = 3
    THEN [planned |-> marked, raised |-> TRUE, linked |-> 0,
          done |-> TRUE, match |-> planned_activity, updates |-> 2]
  ELSE [planned |-> link_activity_to_planned(marked, created_page_id, planned_activity.id),
        raised |-> FALSE, linked |-> planned_activity.id, done |-> TRUE,
        match |-> planned_activity, updates |-> 2]

\* faulty variant: a failed status update undoes the relation update
MatchAndLink_rollback(db, created_page_id, notion_type, activity_date, lenient, failing) ==
  LET planned_activity ==
        find_planned_activity(db, notion_type, activity_date, DefaultMaxDaysDiff,
                              lenient, IF failing \in {1, 2} THEN failing ELSE 0)
      linked == link_activity_to_planned(db, created_page_id, planned_activity.id)
  IN
  IF planned_activity.kind = "raise"
    THEN [planned |-> db, raised |-> TRUE, linked |-> 0, done |-> FALSE,
          match |-> planned_activity, updates |-> 0]
  ELSE IF planned_activity.kind = "none"
    THEN [planned |-> db, raised |-> FALSE, linked |-> 0, done |-> FALSE,
          match |-> planned_activity, updates |-> 0]
  ELSE IF failing = 3
    THEN [planned |-> db, raised |-> TRUE, linked |-> 0, done |-> FALSE,
          match |-> planned_activity, updates |-> 1]
  ELSE IF failing = 4
    THEN [planned |-> db, raised |-> TRUE, linked |-> planned_activity.id,
          done |-> FALSE, match |-> planned_activity, updates |-> 2]
  ELSE [planned |-> mark_planned_as_done(linked, planned_activity.id),
        raised |-> FALSE, linked |-> planned_activity.id, done |-> TRUE,
        match |-> planned_activity, updates |-> 2]

MatchAndLink(db, created_page_id, notion_type, activity_date, lenient, failing) ==
  LET planned_activity ==
        find_planned_activity(db, notion_type, activity_date, DefaultMaxDaysDiff,
                              lenient, IF failing \in {1, 2} THEN failing ELSE 0)
      linked == link_activity_to_planned(db, created_page_id, planned_activity.id)
  IN
  IF planned_activity.kind = "raise"
    THEN [planned |-> db, raised |-> TRUE, linked |-> 0, done |-> FALSE,
          match |-> planned_activity, updates |-> 0]
  ELSE IF planned_activity.kind = "none"
    THEN [planned |-> db, raised |-> FALSE, linked |-> 0, done |-> FALSE,
          match |-> planned_activity, updates |-> 0]
  ELSE IF failing = 3
    THEN [planned |-> db, raised |-> TRUE, linked |-> 0, done |-> FALSE,
          match |-> planned_activity, updates |-> 1]
  ELSE IF failing = 4
    THEN [planned |-> linked, raised |-> TRUE, linked |-> planned_activity.id,
          done |-> FALSE, match |-> planned_activity, updates |-> 2]
  ELSE [planned |-> mark_planned_as_done(linked, planned_activity.id),
        raised |-> FALSE, linked |-> planned_activity.id, done |-> TRUE,
        match |-> planned_activity, updates |-> 2]

\* the call of lines 105-118 whose exception reached the except clause
FailedTailCall(o) ==
  IF ~o.raised THEN ""
  ELSE IF o.match.kind = "raise"
    THEN (IF o.match.exc = "HTTPError" THEN "query" ELSE "date")
  ELSE IF o.linked = 0 THEN "link" ELSE "done"

\* faulty variant: created counted after the link sequence, at line 119
AfterCreate_counts_last(created_page_id, notion_type, activity_date, queries_before) ==
  \E failing \in TailFailures :
    LET o == MatchAndLink(planned_db, created_page_id, notion_type, activity_date,
                          range_lenient, failing)
    IN  /\ planned_db' = o.planned
        /\ link_writes' = IF o.linked = 0 THEN link_writes
                          ELSE link_writes \cup {<<o.linked, created_page_id>>}
        /\ stats' = [stats EXCEPT !.created = @ + (IF o.raised THEN 0 ELSE 1),
                                  !.errors = @ + (IF o.raised THEN 1 ELSE 0)]
        /\ net_failed' = (net_failed \/ (o.raised /\ failing # 0))
        /\ m_call' = [sport |-> notion_type, date |-> activity_date,
                      max_days_diff |-> DefaultMaxDaysDiff,
                      failing |-> IF failing \in {1, 2} THEN failing ELSE 0]
        /\ m_result' = o.match
        /\ query_calls' = query_calls + queries_before + o.match.queries
        /\ update_calls' = update_calls + o.updates
        /\ failed_call' = FailedTailCall(o)

\* lines 102-124 once create_page has returned created_page_id; m_call and
\* m_result keep the call of line 106 and what it gave; queries_before are the
\* queries the loop body sent before create_page
AfterCreate(created_page_id, notion_type, activity_date, queries_before) ==
  \E failing \in TailFailures :
    LET o == MatchAndLink(planned_db, created_page_id, notion_type, activity_date,
                          range_lenient, failing)
    IN  /\ planned_db' = o.planned
        /\ link_writes' = IF o.linked = 0 THEN link_writes
                          ELSE link_writes \cup {<<o.linked, created_page_id>>}
        /\ stats' = [stats EXCEPT !.created = @ + 1,
                                  !.errors = @ + (IF o.raised THEN 1 ELSE 0)]
        /\ net_failed' = (net_failed \/ (o.raised /\ failing # 0))
        /\ m_call' = [sport |-> notion_type, date |-> activity_date,
                      max_days_diff |-> DefaultMaxDaysDiff,
                      failing |-> IF failing \in {1, 2} THEN failing ELSE 0]
        /\ m_result' = o.match
        /\ query_calls' = query_calls + queries_before + o.match.queries
        /\ update_calls' = update_calls + o.updates
        /\ failed_call' = FailedTailCall(o)

(* ---------------------------------------------------------------------- *)
(* Spec: main() / sync_activities, run after run.                          *)
(* ---------------------------------------------------------------------- *)
\* the average_cadence of the activities of the runs: 1.5
SomeCadence == 6

\* (type, sport_type) of the activities the source returns
SourceTypes == {<<"Run", "Run">>, <<"Ride", "Ride">>, <<"Ride", "EBikeRide">>,
                <<"Yoga", "Yoga">>}

SourceActivities ==
  {[id |-> i, type |-> t[1], sport_type |-> t[2], start_date |-> DateTimeStr(1),
    average_cadence |-> SomeCadence] :
     i \in 1 .. MaxActivityId, t \in SourceTypes}

\* what strava_client.get_activities can return
Fetches == UNION {[1 .. n -> SourceActivities] : n \in 0 .. MaxBatch}

\* the activity pages that exist before the first run: one per identifier of S
RECURSIVE PagesFor(_)
PagesFor(S) ==
  IF S = {} THEN <<>>
  ELSE LET m == CHOOSE x \in S : \A y \in S : x <= y
       IN  <<[strava_id |-> m, src |-> m, sport |-> "Run",
               start_date |-> DateTimeStr(1), linked_planned |-> <<>>]>>
             \o PagesFor(S \ {m})

\* what the environment can lack: the Strava credentials, NOTION_TOKEN,
\* NOTION_ACTIVITIES_DB_ID; "" when everything is set
MissingSettings == {"", "strava", "notion_token", "activities_db_id"}

\* query_database raises ValueError before any request is sent
MissingNotion(cfg) == cfg.missing \in {"notion_token", "activities_db_id"}

Init ==
  /\ activities_db \in {PagesFor(S) : S \in SUBSET (1 .. MaxActivityId)}
  /\ planned_db = <<PlannedPage("Run", DateOf(DateStr(1)), "", <<>>)>>
  /\ range_lenient = FALSE
  /\ link_writes = {}
  /\ sports_db = {<<"Run", 1>>}
  /\ config \in [id_mapped : BOOLEAN, sport_relation : BOOLEAN,
                  missing : MissingSettings, cadence_fields : {CadenceSports}]
  /\ m_call = NoCall
  /\ m_result = Idle
  /\ RunAtRest

\* lines 42-66: new clients, fetch, filter, zeroed counters
BeginRun(batch, dry) ==
  /\ triathlon_activities' = batch
  /\ dry_run' = dry
  /\ idx' = 1
  /\ stats' = ZeroStats
  /\ create_calls' = 0
  /\ query_calls' = 0
  /\ update_calls' = 0
  /\ failed_call' = ""
  /\ translated' = NotTranslated
  /\ sport_page_cache' = {}
  /\ pc' = "loop"
  /\ UNCHANGED <<storeVars, matchVars, activities_db, link_writes, envVars, exit_code>>

\* a run over a newly fetched batch
StartRun ==
  /\ pc = "idle"
  /\ config.missing # "strava"
  /\ \E activities \in Fetches, dry \in BOOLEAN :
       BeginRun(filter_triathlon_activities(activities), dry)
  /\ prev_run' = "none"
  /\ net_failed' = FALSE

\* lines 53-54 raise (get_access_token without credentials, or the request
\* fails): main's except clause prints the failure and exits with 1
FetchFails ==
  /\ pc = "idle"
  /\ pc' = "aborted"
  /\ exit_code' = 1
  /\ UNCHANGED <<storeVars, matchVars, activities_db, link_writes, envVars,
                 triathlon_activities, dry_run, idx, stats, prev_run, net_failed,
                 create_calls, query_calls, update_calls, failed_call,
                 translated,
                 sport_page_cache>>

\* after a real run, the next real run fetches the same activities again
RunAgain ==
  /\ pc = "done" /\ ~dry_run
  /\ BeginRun(triathlon_activities, FALSE)
  /\ prev_run' = "real"
  /\ UNCHANGED net_failed

InLoop == pc = "loop" /\ idx <= Len(triathlon_activities)

Activity == triathlon_activities[idx]
NotionType == get_notion_sport_type(StravaTypeOf(Activity))

NextActivity ==
  /\ idx' = idx + 1
  /\ UNCHANGED <<triathlon_activities, dry_run, pc, prev_run, exit_code>>

\* faulty variant: the dry-run test placed after the existence query
DryRunSkip_after_guard ==
  /\ InLoop /\ dry_run
  /\ stats' = [stats EXCEPT !.skipped = @ + 1]
  /\ failed_call' = ""
  /\ translated' = NotTranslated
  /\ query_calls' = query_calls + 1
  /\ NextActivity
  /\ UNCHANGED <<storeVars, matchVars, activities_db, link_writes, envVars,
                 net_failed, create_calls, update_calls, sport_page_cache>>

\* lines 82-85
DryRunSkip ==
  /\ InLoop /\ dry_run
  /\ stats' = [stats EXCEPT !.skipped = @ + 1]
  /\ failed_call' = ""
  /\ translated' = NotTranslated
  /\ NextActivity
  /\ UNCHANGED <<storeVars, matchVars, activities_db, link_writes, envVars,
                 net_failed, create_calls, query_calls, update_calls,
                 sport_page_cache>>

\* faulty variant: a failed existence query taken for "no page", create_page
\* called next
GuardQueryFails_as_absent ==
  /\ InLoop /\ ~dry_run
  /\ stats' = [stats EXCEPT !.errors = @ + 1]
  /\ net_failed' = TRUE
  /\ failed_call' = "guard"
  /\ translated' = NotTranslated
  /\ query_calls' = IF MissingNotion(config) THEN query_calls ELSE query_calls + 1
  /\ create_calls' = create_calls + 1
  /\ NextActivity
  /\ UNCHANGED <<storeVars, matchVars, activities_db, link_writes, envVars,
                 update_calls, sport_page_cache>>

\* faulty variant: the exception leaves the loop
GuardQueryFails_aborts ==
  /\ InLoop /\ ~dry_run
  /\ stats' = [stats EXCEPT !.errors = @ + 1]
  /\ net_failed' = TRUE
  /\ failed_call' = "guard"
  /\ translated' = NotTranslated
  /\ query_calls' = IF MissingNotion(config) THEN query_calls ELSE query_calls + 1
  /\ pc' = "done"
  /\ UNCHANGED <<storeVars, matchVars, activities_db, link_writes, envVars,
                 create_calls, update_calls, sport_page_cache, idx,
                 triathlon_activities, dry_run, prev_run, exit_code>>

\* line 88 raises: the existence query failed, or query_database had no
\* token or database id to send it with; lines 122-124
GuardQueryFails ==
  /\ InLoop /\ ~dry_run
  /\ stats' = [stats EXCEPT !.errors = @ + 1]
  /\ net_failed' = TRUE
  /\ failed_call' = "guard"
  /\ translated' = NotTranslated
  /\ query_calls' = IF MissingNotion(config) THEN query_calls ELSE query_calls + 1
  /\ NextActivity
  /\ UNCHANGED <<storeVars, matchVars, activities_db, link_writes, envVars,
                 create_calls, update_calls, sport_page_cache>>

\* faulty variant: the page that exists is matched and linked again
GuardSkip_relinks ==
  /\ InLoop /\ ~dry_run /\ ~MissingNotion(config)
  /\ find_activity_by_strava_id(activities_db, Activity.id) # 0
  /\ LET o == MatchAndLink(planned_db, find_activity_by_strava_id(activities_db, Activity.id),
                           NotionType, Activity.start_date, range_lenient, 0)
     IN  /\ planned_db' = o.planned
         /\ link_writes' =
              IF o.linked = 0 THEN link_writes
              ELSE link_writes \cup
                     {<<o.linked, find_activity_by_strava_id(activities_db, Activity.id)>>}
         /\ query_calls' = query_calls + 1 + o.match.queries
         /\ update_calls' = update_calls + o.updates
  /\ stats' = [stats EXCEPT !.skipped = @ + 1]
  /\ failed_call' = ""
  /\ translated' = NotTranslated
  /\ NextActivity
  /\ UNCHANGED <<range_lenient, matchVars, activities_db, envVars,
                 net_failed, create_calls, sport_page_cache>>

\* lines 88-94: a page with the identifier exists
GuardSkip ==
  /\ InLoop /\ ~dry_run /\ ~MissingNotion(config)
  /\ find_activity_by_strava_id(activities_db, Activity.id) # 0
  /\ stats' = [stats EXCEPT !.skipped = @ + 1]
  /\ failed_call' = ""
  /\ translated' = NotTranslated
  /\ query_calls' = query_calls + 1
  /\ NextActivity
  /\ UNCHANGED <<storeVars, matchVars, activities_db, link_writes, envVars,
                 net_failed, create_calls, update_calls, sport_page_cache>>

\* line 98 raises: the Sports database query of find_sport_page_id failed
SportQueryFails ==
  /\ InLoop /\ ~dry_run /\ ~MissingNotion(config)
  /\ find_activity_by_strava_id(activities_db, Activity.id) = 0
  /\ SportQueryIssued(config, sport_page_cache, NotionType)
  /\ stats' = [stats EXCEPT !.errors = @ + 1]
  /\ net_failed' = TRUE
  /\ failed_call' = "sport"
  /\ translated' = NotTranslated
  /\ query_calls' = query_calls + 2
  /\ NextActivity
  /\ UNCHANGED <<storeVars, matchVars, activities_db, link_writes, envVars,
                 create_calls, update_calls, sport_page_cache>>

\* lines 96-124: translate, create_page, and what follows it
CreateAndLink ==
  /\ InLoop /\ ~dry_run /\ ~MissingNotion(config)
  /\ find_activity_by_strava_id(activities_db, Activity.id) = 0
  /\ sport_page_cache' =
       find_sport_page_id_cache(config, sport_page_cache, sports_db, NotionType)
  /\ create_calls' = create_calls + 1
  /\ translated' = activity_to_properties(Activity, NotionType, config,
                                       sport_page_cache, sports_db)
  /\ LET properties == translated'
         queries_before ==
           1 + (IF SportQueryIssued(config, sport_page_cache, NotionType) THEN 1 ELSE 0)
     IN  IF create_page_raises(properties) # ""
         THEN /\ stats' = [stats EXCEPT !.errors = @ + 1]
              /\ failed_call' = "create"
              /\ query_calls' = query_calls + queries_before
              /\ UNCHANGED <<planned_db, activities_db, link_writes, net_failed,
                             matchVars, update_calls>>
         ELSE /\ activities_db' = Append(activities_db, CreatedPage(properties, Activity))
              /\ AfterCreate(Len(activities_db) + 1, NotionType, Activity.start_date,
                             queries_before)
  /\ NextActivity
  /\ UNCHANGED <<range_lenient, envVars>>

\* line 126: the loop is over, the counters are returned
ReturnStats ==
  /\ pc = "loop" /\ idx > Len(triathlon_activities)
  /\ pc' = "done"
  /\ UNCHANGED <<storeVars, matchVars, activities_db, link_writes, envVars,
                 triathlon_activities, dry_run, idx, stats, prev_run, net_failed,
                 create_calls, query_calls, update_calls, failed_call,
                 translated,
                 sport_page_cache, exit_code>>

\* faulty variant: the test of the errors counter left out
ProcessExit_always_zero ==
  /\ pc = "done"
  /\ pc' = "exited"
  /\ exit_code' = 0
  /\ UNCHANGED <<storeVars, matchVars, activities_db, link_writes, envVars,
                 triathlon_activities, dry_run, idx, stats, prev_run, net_failed,
                 create_calls, query_calls, update_calls, failed_call,
                 translated,
                 sport_page_cache>>

\* lines 146-157: main() prints the counters; sys.exit(1) if errors > 0,
\* otherwise the script ends and the status is 0
ProcessExit ==
  /\ pc = "done"
  /\ pc' = "exited"
  /\ exit_code' = IF stats.errors > 0 THEN 1 ELSE 0
  /\ UNCHANGED <<storeVars, matchVars, activities_db, link_writes, envVars,
                 triathlon_activities, dry_run, idx, stats, prev_run, net_failed,
                 create_calls, query_calls, update_calls, failed_call,
                 translated,
                 sport_page_cache>>

\* the script is started again: a new process, the stores stay
Restart ==
  /\ pc \in {"exited", "aborted"}
  /\ triathlon_activities' = <<>>
  /\ dry_run' = FALSE
  /\ idx' = 1
  /\ stats' = ZeroStats
  /\ pc' = "idle"
  /\ prev_run' = "none"
  /\ net_failed' = FALSE
  /\ create_calls' = 0
  /\ query_calls' = 0
  /\ update_calls' = 0
  /\ failed_call' = ""
  /\ translated' = NotTranslated
  /\ exit_code' = -1
  /\ sport_page_cache' = {}
  /\ UNCHANGED <<storeVars, matchVars, activities_db, link_writes, envVars>>

Next ==
  \/ StartRun
  \/ FetchFails
  \/ RunAgain
  \/ DryRunSkip
  \/ GuardQueryFails
  \/ GuardSkip
  \/ SportQueryFails
  \/ CreateAndLink
  \/ ReturnStats
  \/ ProcessExit
  \/ Restart

Spec == Init /\ [][Next]_vars

\* one iteration of the for loop, or the return after the last one
LoopStep ==
  \/ DryRunSkip
  \/ GuardQueryFails
  \/ GuardSkip
  \/ SportQueryFails
  \/ CreateAndLink
  \/ ReturnStats

\* the mapping table lists id, as config.yml does
RunInit == Init /\ config.id_mapped

\* one run of main()
RunNext ==
  \/ StartRun
  \/ FetchFails
  \/ LoopStep
  \/ ProcessExit

\* one run; the loop is sequential and every call in it returns or raises:
\* an iteration that can be taken is taken
FairSpec == RunInit /\ [][RunNext]_vars /\ WF_vars(LoopStep)

\* C1: idempotence of sync_activities: when a batch that was just run for
\* real is run for real again, and no store call failed on the wire, the
\* second run calls create_page for no activity, reports created = 0 and
\* counts every activity as skipped.
C1_SecondRunSkipsAll ==
  (pc = "done" /\ prev_run = "real" /\ ~dry_run /\ ~net_failed) =>
    /\ create_calls = 0
    /\ stats.created = 0
    /\ stats.skipped = Len(triathlon_activities)

LinkPlannedPages ==
  {PlannedPage("Run", DateOf(DateStr(1)), "", <<>>),
   PlannedPage("Run", DateOf(DateStr(3)), "Planned", <<>>),
   PlannedPage("Run", DateOf(DateStr(1)), "Planned", <<1>>),
   PlannedPage("Bike", DateOf(DateStr(1)), "", <<>>),
   PlannedPage("Run", DateOf(EmptyStr), "", <<>>)}

\* the activities the loop body is run for; id is the source identifier
LinkSources(id) ==
  {[id |-> id, type |-> "Run", sport_type |-> "Run", start_date |-> DateTimeStr(d),
    average_cadence |-> SomeCadence] :
     d \in {1, 2}}
    \cup {[id |-> id, type |-> "Ride", sport_type |-> "Ride",
            start_date |-> DateTimeStr(1), average_cadence |-> SomeCadence]}

LinkInit ==
  /\ activities_db = PagesFor({1})
  /\ planned_db \in UNION {[1 .. n -> LinkPlannedPages] : n \in 0 .. MaxLinkPlanned}
  /\ range_lenient \in BOOLEAN
  \* the choice shows only on a page whose date the store cannot compare
  /\ range_lenient => \E p \in DOMAIN planned_db : ~Comparable(planned_db[p].date)
  /\ link_writes = {<<p, planned_db[p].relation[1]>> :
                      p \in {q \in DOMAIN planned_db : planned_db[q].relation # <<>>}}
  /\ sports_db = {}
  /\ config = [id_mapped |-> TRUE, sport_relation |-> FALSE, missing |-> "",
                cadence_fields |-> CadenceSports]
  /\ m_call = NoCall
  /\ m_result = Idle
  /\ RunAtRest

\* lines 99-124 for one activity that passed the guard
CreateThenLink ==
  /\ Len(activities_db) <= MaxCreated
  /\ \E activity \in LinkSources(Len(activities_db) + 1) :
       LET notion_type == get_notion_sport_type(StravaTypeOf(activity))
           pair == activity_to_properties(activity, notion_type, config,
                                          sport_page_cache, sports_db)
           properties == PropertiesDict(pair)
       IN  /\ find_activity_by_strava_id(activities_db, activity.id) = 0
           /\ translated' = pair
           /\ create_page_raises(properties) = ""
           /\ activities_db' = Append(activities_db, CreatedPage(properties, activity))
           /\ AfterCreate(Len(activities_db) + 1, notion_type, activity.start_date, 0)
           /\ triathlon_activities' = <<activity>>
  /\ UNCHANGED <<range_lenient, envVars, dry_run, idx, pc,
                 prev_run, create_calls, sport_page_cache, exit_code>>

LinkNext == CreateThenLink

LinkSpec == LinkInit /\ [][LinkNext]_vars

\* the activity page line 101 created last
LastCreated == Len(activities_db)

\* C3: at-most-one consumption: whatever store call of the link sequence
\* fails, no planned workout has its relation written for two activity
\* pages, and the workout find_planned_activity hands to the loop body is
\* never one that an earlier activity page was linked to.
C3_AtMostOneConsumption ==
  /\ \A p \in DOMAIN planned_db :
       Cardinality({w \in link_writes : w[1] = p}) <= 1
  /\ m_result.kind = "page" =>
       \A w \in link_writes : w[1] = m_result.id => w[2] = LastCreated

\* a workout was linked to a created page but the status update failed, so it
\* is not Done; a later activity of the same sport within the tolerance of
\* the workout's day was then created and matched without an error
C3_Witness ==
  \E w \in link_writes :
    /\ 1 < w[2] /\ w[2] < LastCreated
    /\ planned_db[w[1]].select # "Done"
    /\ HasDay(planned_db[w[1]])
    /\ planned_db[w[1]].sport = m_call.sport
    /\ CallDayKnown
    /\ Dist(planned_db[w[1]]) <= DefaultMaxDaysDiff
    /\ m_result.kind \in {"page", "none"}

PagesKept == SubSeq(activities_db', 1, Len(activities_db)) = activities_db

\* C12: link write failure handling: when a call of the link sequence fails
\* for an activity, errors grows by one for it, the page created for it stays
\* in the activities database with the pages before it, the planned
\* workout's relation stays written if its update went through before the
\* failure, and no other planned workout changes; relation writes applied
\* earlier are still in the store.
C12_NoRollback ==
  /\ [][ (Len(activities_db') = Len(activities_db) + 1
            /\ failed_call' \in {"query", "date", "link", "done"}) =>
          /\ stats'.errors = stats.errors + 1
          /\ stats'.created = stats.created + 1
          /\ PagesKept
          /\ failed_call' # "done" => planned_db' = planned_db
          /\ failed_call' = "done" =>
               /\ planned_db'[m_result'.id].relation = <<Len(activities_db')>>
               /\ planned_db'[m_result'.id].select = planned_db[m_result'.id].select
               /\ \A p \in DOMAIN planned_db :
                    p # m_result'.id => planned_db'[p] = planned_db[p] ]_vars
  /\ [](\A w \in link_writes : planned_db[w[1]].relation = <<w[2]>>)

\* the status update failed after the relation update went through: the
\* workout is linked to the created page, not Done, and the error is counted
C12_Witness ==
  /\ failed_call = "done"
  /\ m_result.kind = "page"
  /\ planned_db[m_result.id].relation = <<LastCreated>>
  /\ planned_db[m_result.id].select # "Done"
  /\ stats.errors >= 1
  /\ stats.created >= 2

\* C13: per-activity failure isolation: a step of the loop in which a store
\* call raised adds one to errors and moves to the next activity of the same
\* batch; every step of the loop advances by exactly one activity; the
\* counters are returned only after the last activity; and every run that
\* entered the loop returns its counters.
C13_FailureIsolation ==
  /\ [][ (pc = "loop" /\ idx' # idx /\ failed_call' # "") =>
          /\ stats'.errors = stats.errors + 1
          /\ pc' = "loop" ]_vars
  /\ [][ (pc = "loop" /\ pc' = "loop") =>
          /\ idx' = idx + 1
          /\ idx <= Len(triathlon_activities)
          /\ triathlon_activities' = triathlon_activities ]_vars
  /\ [](pc = "done" => idx = Len(triathlon_activities) + 1)
  /\ (pc = "loop") ~> (pc = "done")

\* the counters were returned for a batch of two whose first activity failed
\* in the existence query and whose second was skipped as existing
C13_Witness ==
  /\ pc = "done" /\ ~dry_run
  /\ Len(triathlon_activities) = 2
  /\ find_activity_by_strava_id(activities_db, triathlon_activities[1].id) = 0
  /\ find_activity_by_strava_id(activities_db, triathlon_activities[2].id) # 0
  /\ create_calls = 0
  /\ stats.errors = 1 /\ stats.skipped = 1

\* C14: dry run: while a dry run is in its loop or has returned, it has sent
\* no query, create or update to the store, created = 0, errors = 0 and one
\* skip is counted per activity passed (all of the filtered batch at the
\* end); no step of a dry run changes the stores.
C14_DryRunTouchesNothing ==
  /\ []((pc \in {"loop", "done"} /\ dry_run) =>
          /\ query_calls = 0 /\ create_calls = 0 /\ update_calls = 0
          /\ stats.created = 0 /\ stats.errors = 0
          /\ stats.skipped = idx - 1)
  /\ []((pc = "done" /\ dry_run) => stats.skipped = Len(triathlon_activities))
  /\ [][ (pc = "loop" /\ dry_run) =>
          UNCHANGED <<activities_db, planned_db, link_writes>> ]_vars

\* a dry run over two activities has returned; one of them has a page in the
\* activities database, the other has none
C14_Witness ==
  /\ pc = "done" /\ dry_run
  /\ Len(triathlon_activities) = 2
  /\ find_activity_by_strava_id(activities_db, triathlon_activities[1].id) = 0
  /\ find_activity_by_strava_id(activities_db, triathlon_activities[2].id) # 0
  /\ stats.skipped = 2

\* a page of the activities database carries the activity's identifier
HasPage(activity) ==
  \E i \in DOMAIN activities_db : activities_db[i].strava_id = activity.id

\* C15: skip leaves the store untouched: when a page with the activity's
\* identifier exists and the existence query did not raise, the step counts
\* the activity as skipped and nothing else, sends that one query and no
\* create, update or matcher query, and leaves every activity page and
\* planned workout as it was.
C15_SkipLeavesStore ==
  [][ (InLoop /\ ~dry_run /\ HasPage(Activity) /\ idx' = idx + 1
         /\ failed_call' # "guard") =>
      /\ stats' = [stats EXCEPT !.skipped = @ + 1]
      /\ create_calls' = create_calls
      /\ update_calls' = update_calls
      /\ query_calls' = query_calls + 1
      /\ UNCHANGED <<m_call, m_result, activities_db, planned_db, link_writes>> ]_vars

\* a real run has skipped two activities; the planned workout of the same
\* sport and day is still open
C15_Witness ==
  /\ pc = "done" /\ ~dry_run
  /\ stats.skipped = 2 /\ query_calls = 2
  /\ triathlon_activities[1].sport_type = "Run"
  /\ IsAvailable(planned_db[1])

\* C16: Duplicate Guard failure is a hard error: a step in which the
\* existence query raised adds one to errors, calls create_page for no
\* activity, counts nothing as created or skipped and adds no page.
C16_GuardFailureIsError ==
  [][ (pc = "loop" /\ idx' = idx + 1 /\ failed_call' = "guard") =>
      /\ stats' = [stats EXCEPT !.errors = @ + 1]
      /\ create_calls' = create_calls
      /\ activities_db' = activities_db ]_vars

\* the existence query failed on the wire for an activity that has no page
C16_Witness ==
  /\ pc = "loop" /\ idx > 1 /\ failed_call = "guard"
  /\ config.missing = ""
  /\ ~HasPage(triathlon_activities[idx - 1])
  /\ stats.errors >= 1

\* C17: category filter: every activity of the batch the loop runs over
\* resolves (sport_type, or type when sport_type is absent) to one of Swim,
\* Ride, Run, so an activity of another category causes no existence query,
\* translation or create.
C17_CategoryFilter ==
  \A i \in DOMAIN triathlon_activities :
    StravaTypeOf(triathlon_activities[i]) \in TriathlonTypes

\* C18 as stated: once main() has ended, the exit code is non-zero if and
\* only if the errors counter of the run is greater than 0.
C18_ExitCodeIffErrors ==
  pc \in {"exited", "aborted"} => (exit_code # 0 <=> stats.errors > 0)

\* C18, amended: a run whose sync_activities returned its counters exits
\* with 1 if errors > 0 and with 0 otherwise, the counters being those the
\* loop returned; a run whose sync_activities raised (the fetch failed, no
\* counters exist) exits with 1.
C18_ExitCodeOfCompletedRun ==
  /\ [](pc = "exited" => /\ exit_code \in {0, 1}
                          /\ exit_code = 1 <=> stats.errors > 0)
  /\ [](pc = "aborted" => exit_code = 1 /\ stats = ZeroStats)
  /\ [](pc \in {"idle", "loop", "done"} => exit_code = -1)
  /\ [][ pc' = "exited" => stats' = stats ]_vars

\* a real run that skipped both its activities has exited with 0
C18_Witness ==
  /\ pc = "exited" /\ exit_code = 0
  /\ ~dry_run /\ stats.skipped = 2 /\ stats.errors = 0

\* C19: configuration errors are fatal and early: when a required
\* credential or identifier is missing, no per-activity step runs and no
\* counter is incremented.
C19_ConfigErrorsAreFatal ==
  config.missing # "" =>
    /\ idx = 1
    /\ stats = ZeroStats

\* C20: no match is not an error: when find_planned_activity returns None
\* for the page just created, the activity adds one to created and to no
\* other counter, no update is sent, and no planned workout changes.
C20_NoMatchIsNotError ==
  [][ (Len(activities_db') = Len(activities_db) + 1 /\ m_result'.kind = "none") =>
      /\ stats' = [stats EXCEPT !.created = @ + 1]
      /\ update_calls' = update_calls
      /\ failed_call' = ""
      /\ planned_db' = planned_db
      /\ link_writes' = link_writes ]_vars

\* None was returned for a created page although the planning database
\* holds a consumed workout of the sport and an open workout of another sport
C20_Witness ==
  /\ LastCreated > 1 /\ m_result.kind = "none" /\ failed_call = ""
  /\ stats.created >= 1 /\ stats.errors = 0
  /\ \E p, q \in DOMAIN planned_db :
       /\ planned_db[p].sport = m_call.sport /\ Consumed(planned_db[p])
       /\ planned_db[q].sport # m_call.sport /\ ~Consumed(planned_db[q])

\* the activity the loop body of LinkSpec was run for last
LastActivity == triathlon_activities[1]

\* the display category the fixed mapping gives a source category
DisplayOf(source) == IF source = "Ride" THEN "Bike" ELSE source

\* C21: category mapping used consistently: for a processed activity the
\* display category is the source category mapped (Ride to Bike, Run and Swim
\* unchanged), and that one category selects the icon, names the field table
\* the sport-specific properties come from (a cadence the table maps is
\* written under that table's name), and is what the matcher is queried for.
C21_CategoryUsedConsistently ==
  LastCreated > 1 =>
    LET display == DisplayOf(LastActivity.sport_type)
    IN  /\ translated.sport = display
        /\ translated.emoji_icon = <<"icon", display>>
        /\ \A prop \in translated.sport_props : prop.name[1] = display
        /\ (display \in config.cadence_fields /\ LastActivity.average_cadence # 0) =>
             \E prop \in translated.sport_props :
               prop.name = <<display, "average_cadence">>
        /\ m_call.sport = display

\* a Ride was processed: its cadence was written under the Bike table's name
\* and the matcher returned a Bike workout
C21_Witness ==
  /\ LastCreated > 1
  /\ LastActivity.sport_type = "Ride"
  /\ \E prop \in translated.sport_props : prop.name = <<"Bike", "average_cadence">>
  /\ m_result.kind = "page" /\ planned_db[m_result.id].sport = "Bike"

(* ---------------------------------------------------------------------- *)
(* TranslatorSpec: activity_to_properties applied to one activity, with    *)
(* the Notion sport type sync.py passes or with none. The activity is the  *)
(* one element of triathlon_activities.                                    *)
(* ---------------------------------------------------------------------- *)
\* the raw cadence values: 0, 0.25, ... MaxCadence / CadenceUnit
MaxCadence == 12

\* sport_type is the type, or is absent
TranslatorActivities ==
  UNION {{[id |-> 1, type |-> t, sport_type |-> st, start_date |-> DateTimeStr(1),
           average_cadence |-> c] : st \in {t, ""}, c \in 0 .. MaxCadence} :
         t \in TriathlonTypes}

TranslatorInit ==
  /\ planned_db = <<>>
  /\ range_lenient = FALSE
  /\ m_call = NoCall
  /\ m_result = Idle
  /\ activities_db = <<>>
  /\ link_writes = {}
  /\ sports_db = {}
  /\ config \in [id_mapped : {TRUE}, sport_relation : {FALSE}, missing : {""},
                  cadence_fields : {{}, CadenceSports}]
  /\ triathlon_activities \in {<<activity>> : activity \in TranslatorActivities}
  /\ dry_run = FALSE
  /\ idx = 1
  /\ stats = ZeroStats
  /\ pc = "idle"
  /\ prev_run = "none"
  /\ net_failed = FALSE
  /\ create_calls = 0
  /\ sport_page_cache = {}
  /\ query_calls = 0
  /\ update_calls = 0
  /\ failed_call = ""
  /\ translated = NotTranslated
  /\ exit_code = -1

Translate ==
  /\ translated = NotTranslated
  /\ \E notion_sport_type \in
         {get_notion_sport_type(StravaTypeOf(triathlon_activities[1])), ""} :
       translated' = activity_to_properties(triathlon_activities[1], notion_sport_type,
                                            config, sport_page_cache, sports_db)
  /\ UNCHANGED <<storeVars, matchVars, activities_db, link_writes, envVars,
                 triathlon_activities, dry_run, idx, stats, pc, prev_run, net_failed,
                 create_calls, sport_page_cache, query_calls, update_calls,
                 failed_call, exit_code>>

TranslatorNext == Translate

TranslatorSpec == TranslatorInit /\ [][TranslatorNext]_vars

\* the activity TranslatorSpec translates, its raw cadence in quarters and
\* its source category
Translated == translated # NotTranslated
RawCadence == triathlon_activities[1].average_cadence
SourceCategory == triathlon_activities[1].type

\* the table of the category the translator was given maps average_cadence
CadenceMapped == translated.sport \in config.cadence_fields

\* the cadence numbers the translator emitted
EmittedCadence ==
  {prop.number : prop \in {q \in translated.sport_props :
                              q.name[2] = "average_cadence"}}

\* n is the whole number nearest to x / CadenceUnit, the even one on a tie
NearestWhole(n, x) ==
  /\ 2 * Abs(CadenceUnit * n - x) <= CadenceUnit
  /\ 2 * Abs(CadenceUnit * n - x) = CadenceUnit => n % 2 = 0

\* C22 as stated: cadence reinterpretation: whenever the category's field
\* table maps average_cadence, the emitted cadence field is 2*c for a running
\* activity and c for a cycling or a swim activity, c being the raw value.
C22_CadenceReinterpreted ==
  (Translated /\ CadenceMapped) =>
    \E n \in EmittedCadence :
      n * CadenceUnit = (IF SourceCategory = "Run" THEN 2 * RawCadence
                                                  ELSE RawCadence)

\* C22: cadence reinterpretation: whenever the category's field table maps
\* average_cadence and the raw value c is not 0, exactly one cadence field is
\* emitted: 2*c rounded to the nearest whole number for a running activity,
\* c rounded to the nearest whole number for a cycling or a swim activity (a
\* tie goes to the even number); for c = 0 or an unmapped field none is.
C22_CadenceRoundedPerCategory ==
  Translated =>
    IF CadenceMapped /\ RawCadence # 0
    THEN \E n \in 0 .. 2 * MaxCadence :
           /\ EmittedCadence = {n}
           /\ NearestWhole(n, IF SourceCategory = "Run" THEN 2 * RawCadence
                                                        ELSE RawCadence)
    ELSE EmittedCadence = {}

\* the same raw cadence 2.0 gave 4 for a run
C22_Witness ==
  /\ Translated /\ CadenceMapped
  /\ SourceCategory = "Run"
  /\ RawCadence = 2 * CadenceUnit
  /\ EmittedCadence = {4}

\* the loop body was run for one more activity and created its page
PageCreated == Len(activities_db') = Len(activities_db) + 1

\* C23: link ordering: within one activity's processing the planned
\* workout's relation update is sent before its status update, and the status
\* update is sent only if the relation update went through: when the
\* relation update fails it is the only update sent and the workout stays as
\* it was, a workout that turns "Done" has had its relation written to the
\* created page by the first of two updates, and in every reachable state a
\* planned workout that is "Done" has a non-empty Training Log Entries
\* relation.
C23_LinkBeforeDone ==
  /\ [][ PageCreated =>
          /\ failed_call' = "link" =>
               /\ planned_db' = planned_db
               /\ update_calls' = update_calls + 1
          /\ \A p \in DOMAIN planned_db :
               (planned_db'[p].select = "Done" /\ planned_db[p].select # "Done") =>
                 /\ planned_db'[p].relation = <<Len(activities_db')>>
                 /\ <<p, Len(activities_db')>> \in link_writes'
                 /\ update_calls' = update_calls + 2 ]_vars
  /\ [](\A p \in DOMAIN planned_db :
          planned_db[p].select = "Done" => planned_db[p].relation # <<>>)

\* one workout was linked and marked Done for an earlier page, and the
\* relation update of the page created last failed: its workout is untouched
C23_Witness ==
  /\ failed_call = "link"
  /\ m_result.kind = "page"
  /\ planned_db[m_result.id].select # "Done"
  /\ planned_db[m_result.id].relation = <<>>
  /\ \E p \in DOMAIN planned_db :
       /\ planned_db[p].select = "Done"
       /\ planned_db[p].relation # <<>>
       /\ planned_db[p].relation[1] < LastCreated

(* ---------------------------------------------------------------------- *)
(* CacheSpec: one NotionClient whose mapping table lists the Sport Type    *)
(* relation translates activity after activity, while the Sports database  *)
(* is edited by its owner between the calls.                               *)
(* ---------------------------------------------------------------------- *)
\* the Sports database queries one client sends
MaxSportQueries == 3

\* the pages the Sports database can hold; none for Swim
SportPages == {<<"Run", 1>>, <<"Run", 2>>, <<"Bike", 3>>, <<"Bike", 4>>}

SportsStores ==
  {pages \in SUBSET SportPages : \A e, f \in pages : e[1] = f[1] => e = f}

CacheActivities ==
  {[id |-> 1, type |-> t, sport_type |-> t, start_date |-> DateTimeStr(1),
    average_cadence |-> SomeCadence] : t \in TriathlonTypes}

CacheInit ==
  /\ planned_db = <<>>
  /\ range_lenient = FALSE
  /\ m_call = NoCall
  /\ m_result = Idle
  /\ activities_db = <<>>
  /\ link_writes = {}
  /\ sports_db \in SportsStores
  /\ config = [id_mapped |-> TRUE, sport_relation |-> TRUE, missing |-> "",
                cadence_fields |-> CadenceSports]
  /\ RunAtRest

\* activity_to_properties for one activity; find_sport_page_id returns
TranslateWithSport ==
  \E activity \in CacheActivities :
    LET notion_type == get_notion_sport_type(StravaTypeOf(activity))
        issued == SportQueryIssued(config, sport_page_cache, notion_type)
    IN  /\ issued => query_calls < MaxSportQueries
        /\ translated' = activity_to_properties(activity, notion_type, config,
                                                sport_page_cache, sports_db)
        /\ sport_page_cache' =
             find_sport_page_id_cache(config, sport_page_cache, sports_db, notion_type)
        /\ query_calls' = query_calls + (IF issued THEN 1 ELSE 0)
        /\ triathlon_activities' = <<activity>>
        /\ failed_call' = ""
        /\ UNCHANGED <<storeVars, matchVars, activities_db, link_writes, envVars,
                       dry_run, idx, stats, pc, prev_run, net_failed, create_calls,
                       update_calls, exit_code>>

\* the query of find_sport_page_id raises, and activity_to_properties with it
SportLookupFails ==
  \E activity \in CacheActivities :
    LET notion_type == get_notion_sport_type(StravaTypeOf(activity))
    IN  /\ SportQueryIssued(config, sport_page_cache, notion_type)
        /\ query_calls < MaxSportQueries
        /\ translated' = NotTranslated
        /\ query_calls' = query_calls + 1
        /\ triathlon_activities' = <<activity>>
        /\ failed_call' = "sport"
        /\ UNCHANGED <<storeVars, matchVars, activities_db, link_writes, envVars,
                       dry_run, idx, stats, pc, prev_run, net_failed, create_calls,
                       update_calls, exit_code, sport_page_cache>>

\* the owner of the Sports database adds, removes or replaces pages
EditSports ==
  /\ sports_db' \in SportsStores \ {sports_db}
  /\ UNCHANGED <<storeVars, matchVars, activities_db, link_writes, config,
                 triathlon_activities, dry_run, idx, stats, pc, prev_run, net_failed,
                 create_calls, sport_page_cache, query_calls, update_calls,
                 failed_call, translated, exit_code>>

CacheNext ==
  \/ TranslateWithSport
  \/ SportLookupFails
  \/ EditSports

CacheSpec == CacheInit /\ [][CacheNext]_vars

\* a step in which find_sport_page_id returned
SportLookedUp ==
  /\ sports_db' = sports_db
  /\ translated' # NotTranslated
  /\ failed_call' = ""
  /\ triathlon_activities' # <<>>

\* C24: sport category lookup cache: once find_sport_page_id has returned a
\* page id for a category, every later lookup of that category by the same
\* client returns the same id and sends no query, whatever the Sports
\* database holds by then; no step removes or changes a cache entry; a lookup
\* that found no page stores nothing.
C24_SportCacheStable ==
  /\ [][ SportLookedUp =>
          LET sport_name == translated'.sport
              cached == {e \in sport_page_cache : e[1] = sport_name}
          IN  /\ \A e \in cached :
                   /\ translated'.sport_page = e[2]
                   /\ query_calls' = query_calls
              /\ translated'.sport_page # 0 =>
                   <<sport_name, translated'.sport_page>> \in sport_page_cache'
              /\ translated'.sport_page = 0 =>
                   sport_page_cache' = sport_page_cache ]_vars
  /\ [][ \A e \in sport_page_cache : e \in sport_page_cache' ]_vars
  /\ [](\A e, f \in sport_page_cache : e[1] = f[1] => e = f)

\* Run is cached with page 1 and was returned with it, by a client that sent
\* one query, while the Sports database holds page 2 for Run
C24_Witness ==
  /\ sport_page_cache = {<<"Run", 1>>}
  /\ translated.sport = "Run" /\ translated.sport_page = 1
  /\ <<"Run", 2>> \in sports_db
  /\ query_calls = 1

(* ---------------------------------------------------------------------- *)
(* RerunSpec: runs of sync_activities, one after the other, with the       *)
(* properties dictionary handed to create_page as in LinkSpec: pages are   *)
(* created, and a later run meets the pages of an earlier one.             *)
(* ---------------------------------------------------------------------- *)
RerunInit ==
  /\ activities_db = <<>>
  /\ planned_db = <<PlannedPage("Run", DateOf(DateStr(1)), "", <<>>)>>
  /\ range_lenient = FALSE
  /\ link_writes = {}
  /\ sports_db = {}
  /\ config \in [id_mapped : BOOLEAN, sport_relation : {FALSE}, missing : {""},
                  cadence_fields : {CadenceSports}]
  /\ m_call = NoCall
  /\ m_result = Idle
  /\ RunAtRest

\* lines 96-124 with properties[0] of the translator's pair given to create_page
CreateDictAndLink ==
  /\ InLoop /\ ~dry_run /\ ~MissingNotion(config)
  /\ Len(activities_db) < MaxCreated
  /\ find_activity_by_strava_id(activities_db, Activity.id) = 0
  /\ sport_page_cache' =
       find_sport_page_id_cache(config, sport_page_cache, sports_db, NotionType)
  /\ create_calls' = create_calls + 1
  /\ translated' = activity_to_properties(Activity, NotionType, config,
                                          sport_page_cache, sports_db)
  /\ LET properties == PropertiesDict(translated')
         queries_before ==
           1 + (IF SportQueryIssued(config, sport_page_cache, NotionType) THEN 1 ELSE 0)
     IN  /\ create_page_raises(properties) = ""
         /\ activities_db' = Append(activities_db, CreatedPage(properties, Activity))
         /\ AfterCreate(Len(activities_db) + 1, NotionType, Activity.start_date,
                        queries_before)
  /\ NextActivity
  /\ UNCHANGED <<range_lenient, envVars>>

\* a run over a newly fetched batch of runs and rides
RerunStart ==
  /\ pc = "idle"
  /\ \E activities \in Fetches, dry \in BOOLEAN :
       /\ \A k \in DOMAIN activities : activities[k].type = activities[k].sport_type
       /\ BeginRun(filter_triathlon_activities(activities), dry)
  /\ prev_run' = "none"
  /\ net_failed' = FALSE

RerunNext ==
  \/ RerunStart
  \/ RunAgain
  \/ DryRunSkip
  \/ GuardQueryFails
  \/ GuardSkip
  \/ CreateDictAndLink
  \/ ReturnStats

RerunSpec == RerunInit /\ [][RerunNext]_vars

\* the loop body is run, not as a dry run, for an activity one of whose
\* pages is in the store and has no relation written to it
UnlinkedPagesOf(id) ==
  {i \in DOMAIN activities_db :
     /\ activities_db[i].src = id
     /\ \A w \in link_writes : w[2] # i}

BodyRunFor(pages) ==
  /\ pc = "loop" /\ idx' = idx + 1 /\ ~dry_run
  /\ pages # {}

\* the body ends at the guard: no page is created, the matcher is not
\* queried, no planned workout changes, and the activity is counted as
\* skipped, or as an error when the existence query itself failed
StopsAtGuard ==
  /\ activities_db' = activities_db
  /\ link_writes' = link_writes
  /\ planned_db' = planned_db
  /\ create_calls' = create_calls
  /\ update_calls' = update_calls
  /\ query_calls' <= query_calls + 1
  /\ \/ stats' = [stats EXCEPT !.skipped = @ + 1]
     \/ stats' = [stats EXCEPT !.errors = @ + 1] /\ failed_call' = "guard"

Iteration == pc = "loop" /\ idx' = idx + 1

\* how much a counter grew in the step
Grew(counter) == stats'[counter] - stats[counter]

====
